---- MODULE Spec2Model ----
(***************************************************************************)
(* CallBrain-AI: the analysis-request orchestration of                     *)
(* services/geminiService.ts (analyzeAudio and its helpers).               *)
(*                                                                         *)
(* One analyzeAudio invocation is a state machine whose steps are the      *)
(* stretches of code between two awaits: the code of one stretch runs      *)
(* without interruption, so it is one action.                              *)
(*                                                                         *)
(* JavaScript strings are TLA+ strings; an optional value (undefined or a  *)
(* value) is the empty set or a singleton.                                 *)
(***************************************************************************)
EXTENDS Integers, Sequences, FiniteSets, TLC

VARIABLES
    pc,             \* position of the invocation: the await it is suspended at
    apiKey,         \* process.env.API_KEY is set
    input,          \* the File passed to analyzeAudio
    finalBlob,      \* let finalBlob
    finalMimeType,  \* let finalMimeType
    base64Data,     \* const base64Data (optional until encoded)
    mimeType,       \* const mimeType (optional until resolved)
    attempt,        \* let attempt
    requests,       \* the generateContent requests issued so far
    waits,          \* the setTimeout delays awaited so far, in ms
    response,       \* the last response of generateContent (optional)
    log,            \* console.error("Attempt n Failed:", error) records
    result,         \* the value analyzeAudio returned (optional)
    error,          \* the error analyzeAudio threw (optional)
    conv,           \* convertMp4ToWav: the await it is suspended at, what failed
    encoding,       \* fileToGenerativePart: its promise and the reader events handled
    parseIn,        \* cleanAndParseJSON on its own: the text it is called with
    parseOut,       \* cleanAndParseJSON on its own: what it returned, or that it threw
    invocation,     \* concurrent analyzeAudio invocations: the locals of each
    wavIn,          \* audioBufferToWav on its own: the AudioBuffer it is called with
    wavOut,         \* audioBufferToWav on its own: the bytes of the Blob it returned
    wavOffset,      \* audioBufferToWav on its own: let offset when it returned
    view,           \* App: the view shown
    selectedCall,   \* App: the record shown in the details view (optional)
    calls,          \* App: the records of the analysed calls, newest first
    uploader,       \* the mounted CallUploader (optional): file, error, isProcessing, isDragging
    pending,        \* the analyzeAudio calls that handleProcess awaits
    started,        \* how many times handleProcess has called analyzeAudio
    settled,        \* the analyzeAudio calls that resolved or rejected
    mimeIn,         \* getMimeType on its own: the blob and name it is called with
    mimeOut         \* getMimeType on its own: what it returned

\* the state of one analyzeAudio invocation
callVars == <<pc, apiKey, input, finalBlob, finalMimeType, base64Data, mimeType,
              attempt, requests, waits, response, log, result, error, conv, encoding>>

\* one call of cleanAndParseJSON
parseVars == <<parseIn, parseOut>>

\* the invocations in progress together
concVars == <<invocation>>

\* one call of audioBufferToWav
wavVars == <<wavIn, wavOut, wavOffset>>

\* the App and its CallUploader
uiVars == <<view, selectedCall, calls, uploader, pending, started, settled>>

\* one call of getMimeType
mimeVars == <<mimeIn, mimeOut>>

vars == <<callVars, parseVars, concVars, wavVars, uiVars, mimeVars>>

\* what a step of analyzeAudio leaves alone, what one of cleanAndParseJSON
\* does, what one of the concurrent invocations does
notCall == <<parseVars, concVars, wavVars, uiVars, mimeVars>>
notParse == <<callVars, concVars, wavVars, uiVars, mimeVars>>
notConc == <<callVars, parseVars, wavVars, uiVars, mimeVars>>
notWav == <<callVars, parseVars, concVars, uiVars, mimeVars>>
notUi == <<callVars, parseVars, concVars, wavVars, mimeVars>>
notMime == <<callVars, parseVars, concVars, wavVars, uiVars>>

(***************************************************************************)
(* Bounds of the model.                                                    *)
(***************************************************************************)
\* sizes are taken within MaxDelta bytes (frames) of the 10 MiB limit
MaxDelta == 1

(***************************************************************************)
(* String built-ins of JavaScript, as the code uses them.                  *)
(***************************************************************************)
CharAt(s, i) == SubSeq(s, i, i)

UpperChars == "ABCDEFGHIJKLMNOPQRSTUVWXYZ"
LowerChars == "abcdefghijklmnopqrstuvwxyz"

LowerChar(c) ==
    IF \E i \in 1..Len(UpperChars) : CharAt(UpperChars, i) = c
    THEN CharAt(LowerChars, CHOOSE i \in 1..Len(UpperChars) : CharAt(UpperChars, i) = c)
    ELSE c

RECURSIVE toLowerCase(_)
toLowerCase(s) ==
    IF Len(s) = 0 THEN ""
    ELSE LowerChar(CharAt(s, 1)) \o toLowerCase(SubSeq(s, 2, Len(s)))

endsWith(s, suffix) ==
    /\ Len(s) >= Len(suffix)
    /\ SubSeq(s, Len(s) - Len(suffix) + 1, Len(s)) = suffix

includes(s, sub) ==
    \E i \in 1..(Len(s) - Len(sub) + 1) : SubSeq(s, i, i + Len(sub) - 1) = sub

\* error.message?.includes(sub): false when the error has no message
messageIncludes(e, sub) == \E m \in e.message : includes(m, sub)

RECURSIVE pow(_, _)
pow(b, e) == IF e = 0 THEN 1 ELSE b * pow(b, e - 1)

Digit(d) == CharAt("0123456789", d + 1)

RECURSIVE IntToStr(_)
IntToStr(n) == IF n < 10 THEN Digit(n) ELSE IntToStr(n \div 10) \o Digit(n % 10)

MiB == 1024 * 1024

\* (size / (1024 * 1024)).toFixed(1): one decimal, ties rounded up
toFixed1MB(size) ==
    LET tenths == (size * 10 + MiB \div 2) \div MiB
    IN  IntToStr(tenths \div 10) \o "." \o Digit(tenths % 10)

(***************************************************************************)
(* Errors. new Error(msg) has a message and no status; an error thrown by  *)
(* the remote call may have either.                                        *)
(***************************************************************************)
Error(msg) == [kind |-> "Error", message |-> {msg}, status |-> {}]

ConfigurationError ==
    Error("API Key is missing. Please check your environment configuration.")
ConversionError ==
    Error("Failed to convert audio file. The file might be corrupted or incompatible.")
SizeLimitError(size) ==
    Error("Processed file size (" \o toFixed1MB(size)
          \o "MB) exceeds the 10MB limit. Please upload a shorter recording.")
ParseError == Error("Failed to parse AI response.")
EmptyResponseError == Error("Empty response from Gemini")
InvalidRequestError ==
    Error("Invalid request. The file format might not be supported.")
ExhaustedRetriesError == Error("Analysis failed after multiple attempts.")

\* the event FileReader.onerror passes to reject
ReaderErrorEvent == [kind |-> "ProgressEvent", message |-> {}, status |-> {}]

ApiError(status, message) == [kind |-> "ApiError", message |-> message, status |-> status]

(***************************************************************************)
(* JSON.parse, on the JSON texts the model uses: objects, arrays, strings  *)
(* without escapes, integers, null, true and false, with JSON whitespace.  *)
(* A parse yields [ok |-> TRUE, val |-> v, pos |-> next index] or Fail.    *)
(***************************************************************************)
IsWs(c) == c \in {" ", "\n", "\t", "\r"}

RECURSIVE SkipWs(_, _)
SkipWs(s, i) == IF i <= Len(s) /\ IsWs(CharAt(s, i)) THEN SkipWs(s, i + 1) ELSE i

StartsAt(s, i, lit) ==
    /\ i >= 1
    /\ i + Len(lit) - 1 <= Len(s)
    /\ SubSeq(s, i, i + Len(lit) - 1) = lit

IsDigit(c) == c \in {"0", "1", "2", "3", "4", "5", "6", "7", "8", "9"}

DigitValue(c) == CHOOSE d \in 0..9 : Digit(d) = c

RECURSIVE DigitsEnd(_, _)
DigitsEnd(s, i) == IF i <= Len(s) /\ IsDigit(CharAt(s, i)) THEN DigitsEnd(s, i + 1) ELSE i

RECURSIVE StrToInt(_)
StrToInt(d) ==
    IF Len(d) = 0 THEN 0
    ELSE StrToInt(SubSeq(d, 1, Len(d) - 1)) * 10 + DigitValue(CharAt(d, Len(d)))

Fail == [ok |-> FALSE]
Parsed(v, p) == [ok |-> TRUE, val |-> v, pos |-> p]

JsonNull == [kind |-> "null"]
JsonBool(b) == [kind |-> "boolean", bool |-> b]
JsonNumber(n) == [kind |-> "number", num |-> n]
JsonString(str) == [kind |-> "string", str |-> str]
JsonArray(items) == [kind |-> "array", items |-> items]
JsonObject(members) == [kind |-> "object", members |-> members]
NoMembers == [k \in {} |-> JsonNull]

\* a string token starting at the quote at i: up to the next quote, no control
\* character and no escape inside
RECURSIVE StringEnd(_, _)
StringEnd(s, i) ==
    IF i > Len(s) THEN 0
    ELSE IF CharAt(s, i) = "\"" THEN i
    ELSE IF CharAt(s, i) \in {"\n", "\t", "\r", "\\"} THEN 0
    ELSE StringEnd(s, i + 1)

ParseString(s, i) ==
    LET j == StringEnd(s, i + 1)
    IN  IF j = 0 THEN Fail ELSE Parsed(JsonString(SubSeq(s, i + 1, j - 1)), j + 1)

\* an integer token: -? (0 | [1-9][0-9]*)
ParseNumber(s, i) ==
    LET neg == CharAt(s, i) = "-"
        b   == IF neg THEN i + 1 ELSE i
        e   == DigitsEnd(s, b)
    IN  IF e = b THEN Fail
        ELSE IF CharAt(s, b) = "0" /\ e > b + 1 THEN Fail
        ELSE LET n == StrToInt(SubSeq(s, b, e - 1))
             IN  Parsed(JsonNumber(IF neg THEN 0 - n ELSE n), e)

RECURSIVE ParseValue(_, _), ParseMembers(_, _, _), ParseElements(_, _, _)

ParseValue(s, i0) ==
    LET i == SkipWs(s, i0)
    IN  IF i > Len(s) THEN Fail
        ELSE LET c == CharAt(s, i)
             IN  IF c = "{" THEN
                     LET j == SkipWs(s, i + 1)
                     IN  IF StartsAt(s, j, "}") THEN Parsed(JsonObject(NoMembers), j + 1)
                         ELSE ParseMembers(s, j, NoMembers)
                 ELSE IF c = "[" THEN
                     LET j == SkipWs(s, i + 1)
                     IN  IF StartsAt(s, j, "]") THEN Parsed(JsonArray(<<>>), j + 1)
                         ELSE ParseElements(s, j, <<>>)
                 ELSE IF c = "\"" THEN ParseString(s, i)
                 ELSE IF c = "-" \/ IsDigit(c) THEN ParseNumber(s, i)
                 ELSE IF StartsAt(s, i, "null") THEN Parsed(JsonNull, i + 4)
                 ELSE IF StartsAt(s, i, "true") THEN Parsed(JsonBool(TRUE), i + 4)
                 ELSE IF StartsAt(s, i, "false") THEN Parsed(JsonBool(FALSE), i + 5)
                 ELSE Fail

\* members of an object from the key at i on; a repeated key keeps the last value
ParseMembers(s, i, acc) ==
    IF ~StartsAt(s, i, "\"") THEN Fail
    ELSE LET k == ParseString(s, i)
         IN  IF ~k.ok THEN Fail
             ELSE LET c == SkipWs(s, k.pos)
                  IN  IF ~StartsAt(s, c, ":") THEN Fail
                      ELSE LET v == ParseValue(s, c + 1)
                           IN  IF ~v.ok THEN Fail
                               ELSE LET n    == SkipWs(s, v.pos)
                                        acc2 == (k.val.str :> v.val) @@ acc
                                    IN  IF StartsAt(s, n, "}") THEN Parsed(JsonObject(acc2), n + 1)
                                        ELSE IF StartsAt(s, n, ",")
                                             THEN ParseMembers(s, SkipWs(s, n + 1), acc2)
                                        ELSE Fail

ParseElements(s, i, acc) ==
    LET v == ParseValue(s, i)
    IN  IF ~v.ok THEN Fail
        ELSE LET n    == SkipWs(s, v.pos)
                 acc2 == Append(acc, v.val)
             IN  IF StartsAt(s, n, "]") THEN Parsed(JsonArray(acc2), n + 1)
                 ELSE IF StartsAt(s, n, ",") THEN ParseElements(s, n + 1, acc2)
                 ELSE Fail

\* JSON.parse(text): the whole text is one value, or a SyntaxError is thrown
JSONparse(text) ==
    LET r == ParseValue(text, 1)
    IN  IF r.ok /\ SkipWs(text, r.pos) > Len(text) THEN [ok |-> TRUE, val |-> r.val]
        ELSE Fail

(***************************************************************************)
(* cleanAndParseJSON: the first match of codeBlockRegex (a fence, an       *)
(* optional json tag, whitespace, a lazy group, whitespace, a fence) gives *)
(* the text to parse: its group, or the whole text when nothing matches.   *)
(***************************************************************************)
\* the grave accent is written as an apostrophe here: a TLA+ string cannot hold
\* a grave accent, and the texts of the model hold no other apostrophe
Fence == "'''"

\* where the capture group starts when the opening fence is at i
CaptureStart(s, i) ==
    SkipWs(s, IF StartsAt(s, i + 3, "json") THEN i + 7 ELSE i + 3)

\* the closing fences usable by an opening fence at i
ClosingFences(s, i) == {q \in CaptureStart(s, i)..Len(s) : StartsAt(s, q, Fence)}

\* the opening fences of a match
Openings(s) == {i \in 1..Len(s) : StartsAt(s, i, Fence) /\ ClosingFences(s, i) # {}}

Min(S) == CHOOSE x \in S : \A y \in S : x <= y

\* the lazy group ends where the whitespace before the closing fence starts
RECURSIVE TrimEnd(_, _, _)
TrimEnd(s, p, e) == IF e > p /\ IsWs(CharAt(s, e - 1)) THEN TrimEnd(s, p, e - 1) ELSE e

codeBlockMatch(text) ==
    IF Openings(text) = {} THEN {}
    ELSE LET i == Min(Openings(text))
             p == CaptureStart(text, i)
             q == Min(ClosingFences(text, i))
         IN  {SubSeq(text, p, TrimEnd(text, p, q) - 1)}

\* mutant: a text that does not parse yields an object without fields
cleanAndParseJSON_partial(text) ==
    LET match     == codeBlockMatch(text)
        cleanText == IF match # {} THEN CHOOSE m \in match : TRUE ELSE text
    IN  IF JSONparse(cleanText).ok THEN JSONparse(cleanText)
        ELSE [ok |-> TRUE, val |-> JsonObject(NoMembers)]

cleanAndParseJSON(text) ==
    LET match     == codeBlockMatch(text)
        cleanText == IF match # {} THEN CHOOSE m \in match : TRUE ELSE text
    IN  JSONparse(cleanText)

(***************************************************************************)
(* The inputs of the model.                                                *)
(***************************************************************************)
TheOne(S) == CHOOSE x \in S : TRUE

maxRetries == 3

SIZE_LIMIT == 10 * 1024 * 1024

FileNames == {"A.MP4", "b.M4a", "c.mp3", "d.wav", "m4a", "e.mp4.mp3"}

FileTypes == {"audio/mpeg", "video/mp4", "audio/wav", ""}

FileSizes == {100 * MiB} \cup {SIZE_LIMIT + d : d \in (0 - MaxDelta)..MaxDelta}

Files == [name : FileNames, type : FileTypes, size : FileSizes]

\* the frame count whose WAV is exactly SIZE_LIMIT bytes
FramesAtLimit == (SIZE_LIMIT - 44) \div 2

\* what decodeAudioData may resolve with: 16 kHz recordings around the limit,
\* and 48 kHz ones of 2 frames and of three times the frames over the limit
DecodedBuffers ==
    [numberOfChannels : {2}, sampleRate : {16000},
     length : {FramesAtLimit + d : d \in (0 - MaxDelta)..MaxDelta}]
    \cup [numberOfChannels : {1}, sampleRate : {48000},
          length : {2, 3 * (FramesAtLimit + MaxDelta + 1)}]

targetSampleRate == 16000

\* audioBuffer.duration * targetSampleRate as the unsigned long length of the
\* OfflineAudioContext: length / sampleRate * 16000, the fraction dropped
offlineLength(audioBuffer) ==
    (audioBuffer.length \div audioBuffer.sampleRate) * targetSampleRate
    + ((audioBuffer.length % audioBuffer.sampleRate) * targetSampleRate)
          \div audioBuffer.sampleRate

\* the frame counts the offline rendering may produce (16 kHz, mono): an
\* OfflineAudioContext has at least one frame
RenderedLengths == {offlineLength(b) : b \in DecodedBuffers} \ {0}

ResampledBuffers ==
    [numberOfChannels : {1}, length : RenderedLengths, sampleRate : {targetSampleRate}]

\* what the awaits of convertMp4ToWav may reject with, and what its own
\* statements may throw
ConversionCauses ==
    [ arrayBuffer     |-> {"NotReadableError"},
      decodeAudioData |-> {"EncodingError"},
      startRendering  |-> {"InvalidStateError"} ]

\* what the remote call may throw
RemoteErrors ==
    { ApiError({503}, {"Service Unavailable"}),
      ApiError({500}, {}),
      ApiError({}, {"read 1500 bytes"}),
      ApiError({400}, {"Bad Request"}),
      ApiError({400}, {"400 Bad Request"}),
      ApiError({400}, {"code 400, retry after 500 ms"}),
      ApiError({429}, {"Too Many Requests"}) }

FullObjectText ==
    "{\"transcript\":\"hi\",\"summary\":\"s\",\"sentiment\":\"Neutral\",\"actionItems\":[],\"keyInsights\":[]}"

\* response.text of a resolved remote call: undefined, or a text
ResponseTexts ==
    { {}, {""},
      {FullObjectText},
      {Fence \o "json\n" \o FullObjectText \o "\n" \o Fence},
      {"Here is the analysis: {}"},
      {"{\"summary\":\"s\"}"},
      {"null"} }

(***************************************************************************)
(* Helpers of analyzeAudio.                                                *)
(***************************************************************************)
\* audioBufferToWav: the Blob of 44 header bytes and 16-bit samples
audioBufferToWav(buffer) ==
    [size |-> 44 + buffer.length * buffer.numberOfChannels * 2, type |-> "audio/wav"]

getMimeType(file, originalName) ==
    IF file.type = "audio/wav" THEN "audio/wav"
    ELSE LET dots == {i \in 1..Len(originalName) : CharAt(originalName, i) = "."}
             last == IF dots = {} THEN 0 ELSE CHOOSE i \in dots : \A j \in dots : j <= i
             ext  == toLowerCase(SubSeq(originalName, last + 1, Len(originalName)))
         IN  IF Len(originalName) > 0 /\ ext = "mp3" THEN "audio/mpeg"
             ELSE IF Len(originalName) > 0 /\ ext = "wav" THEN "audio/wav"
             ELSE IF Len(originalName) > 0 /\ ext = "m4a" THEN "audio/mp4"
             ELSE IF file.type # "" THEN file.type
             ELSE "audio/mp3"

\* the base64 text of the blob's bytes
base64(blob) == [base64of |-> blob]

\* reader.readAsDataURL: the data URL that the reader holds as its result
readAsDataURL(blob) == [prefix |-> "data:" \o blob.type \o ";base64", data |-> base64(blob)]

\* the promise of line 102: pending, then settled by the first resolve or
\* reject; uncaught counts the handlers that threw, events what was handled
NoPromise == [state |-> "none", value |-> {}, settles |-> 0, uncaught |-> 0, events |-> <<>>]
NewPromise == [NoPromise EXCEPT !.state = "pending"]

resolve(promise, value) ==
    IF promise.state = "pending"
    THEN [promise EXCEPT !.state = "fulfilled", !.value = {value}, !.settles = @ + 1]
    ELSE promise

reject(promise, reason) ==
    IF promise.state = "pending"
    THEN [promise EXCEPT !.state = "rejected", !.value = {reason}, !.settles = @ + 1]
    ELSE promise

\* the base64 text of no blob at all
NoData == base64([type |-> "", size |-> 0])

\* mutant: a null result is tolerated and resolves with no data
onloadend_lenient(promise, readerResult) ==
    resolve(promise, IF readerResult = {} THEN NoData ELSE TheOne(readerResult).data)

\* reader.onloadend, lines 104-109: split(',')[1] of the data URL; on a null
\* result split throws a TypeError inside the handler and the promise is
\* left as it was
onloadend(promise, readerResult) ==
    IF readerResult = {}
    THEN [promise EXCEPT !.uncaught = @ + 1]
    ELSE resolve(promise, TheOne(readerResult).data)

\* reader.onerror = reject, line 110: called with the reader's error event
onerror(promise, event) == reject(promise, event)

\* one event of the reader given to its handler; load has none
dispatch(promise, event, readerResult) ==
    LET handled == [promise EXCEPT !.events = Append(@, event)]
    IN  IF event = "loadend" THEN onloadend(handled, readerResult)
        ELSE IF event = "error" THEN onerror(handled, ReaderErrorEvent)
        ELSE handled

RECURSIVE deliver(_, _, _)
deliver(promise, events, readerResult) ==
    IF events = <<>> THEN promise
    ELSE deliver(dispatch(promise, Head(events), readerResult), Tail(events), readerResult)

\* the orders in which the handlers see the events of a failed read
ReaderFailureOrders == {<<"error", "loadend">>, <<"loadend", "error">>}

\* fileToGenerativePart, lines 101-113: the promise once the reader has
\* fired its events
fileToGenerativePart(blob, readerResult, events) ==
    deliver(NewPromise, events, readerResult)

\* mutant: the extension is compared without toLowerCase
needsConversion_caseSensitive(file) ==
    \/ includes(file.type, "mp4")
    \/ endsWith(file.name, ".mp4")
    \/ endsWith(file.name, ".m4a")

needsConversion(file) ==
    \/ includes(file.type, "mp4")
    \/ endsWith(toLowerCase(file.name), ".mp4")
    \/ endsWith(toLowerCase(file.name), ".m4a")

\* mutant: >= for >
exceedsLimit_inclusive(blob) == blob.size >= SIZE_LIMIT

exceedsLimit(blob) == blob.size > SIZE_LIMIT

\* mutant: the message is not looked at
isRetryable_statusOnly(e) == 500 \in e.status \/ 503 \in e.status

\* mutant: every error is retryable
isRetryable_anyError(e) == TRUE

isRetryable(e) ==
    \/ messageIncludes(e, "500")
    \/ messageIncludes(e, "503")
    \/ 500 \in e.status
    \/ 503 \in e.status

\* mutant: whatever failed is retried while the budget lasts
shouldRetry_anyError(e, a) == a < maxRetries - 1

shouldRetry(e, a) == isRetryable(e) /\ a < maxRetries - 1

\* mutant: attempt++ is missing
nextAttempt_stuck(a) == a

nextAttempt(a) == a + 1

\* mutant: the exponent counts the failures from 0
backoffDelay_early(a) == 2000 * pow(2, a - 1)

backoffDelay(a) == 2000 * pow(2, a)

loopGuard(a) == a < maxRetries

Request(mime, data) ==
    [model |-> "gemini-2.5-flash", mimeType |-> mime, data |-> data, text |-> "prompt"]

(***************************************************************************)
(* analyzeAudio.                                                           *)
(***************************************************************************)
InitCall ==
    /\ pc = "Idle"
    /\ apiKey \in BOOLEAN
    /\ input \in Files
    /\ finalBlob = {}
    /\ finalMimeType = {}
    /\ base64Data = {}
    /\ mimeType = {}
    /\ attempt = 0
    /\ requests = <<>>
    /\ waits = <<>>
    /\ response = {}
    /\ log = <<>>
    /\ result = {}
    /\ error = {}
    /\ conv = [stage |-> "none"]
    /\ encoding = NoPromise

\* no analyzeAudio in progress
CallIdle == InitCall /\ ~apiKey /\ input = [name |-> "d.wav", type |-> "audio/wav", size |-> SIZE_LIMIT]

\* no cleanAndParseJSON on its own
ParseIdle == parseIn = {} /\ parseOut = {}

\* no concurrent invocations
ConcIdle == invocation = <<>>

\* no audioBufferToWav on its own
WavIdle == wavIn = {} /\ wavOut = {} /\ wavOffset = {}

\* the App as it is first rendered: lines 246-248
InitApp ==
    /\ view = "dashboard"
    /\ selectedCall = {}
    /\ calls = <<>>
    /\ uploader = {}
    /\ pending = {}
    /\ started = 0
    /\ settled = {}

\* no getMimeType on its own
MimeIdle == mimeIn = {} /\ mimeOut = {}

Init == InitCall /\ ParseIdle /\ ConcIdle /\ WavIdle /\ InitApp /\ MimeIdle

\* mutant: the limit is applied to the raw input
SizeCheck_rawInput(blob, mime) ==
    /\ finalBlob' = {blob}
    /\ finalMimeType' = {mime}
    /\ IF exceedsLimit(input)
       THEN pc' = "Failed" /\ error' = {SizeLimitError(input.size)}
       ELSE pc' = "Encoding" /\ UNCHANGED error

\* lines 161-168: the size check on the blob to send, then the blob is read
SizeCheck(blob, mime) ==
    /\ finalBlob' = {blob}
    /\ finalMimeType' = {mime}
    /\ IF exceedsLimit(blob)
       THEN pc' = "Failed" /\ error' = {SizeLimitError(blob.size)}
       ELSE pc' = "Encoding" /\ UNCHANGED error

\* mutant: the credential is not looked at
keyMissing_ignored(key) == FALSE

\* !apiKey of line 136
keyMissing(key) == ~key

\* lines 135-152 (no key, or a conversion awaited) or 135-168 (no conversion)
Begin ==
    /\ pc = "Idle"
    /\ IF keyMissing(apiKey)
       THEN /\ pc' = "Failed"
            /\ error' = {ConfigurationError}
            /\ UNCHANGED <<finalBlob, finalMimeType, conv>>
       ELSE IF needsConversion(input)
       THEN /\ pc' = "Converting"
            /\ finalBlob' = {input}
            /\ finalMimeType' = {input.type}
            /\ conv' = [stage |-> "arrayBuffer"]
            /\ UNCHANGED error
       ELSE SizeCheck(input, input.type) /\ UNCHANGED conv
    /\ UNCHANGED <<apiKey, input, encoding, base64Data, mimeType, attempt, requests, waits,
                   response, log, result>>
    /\ UNCHANGED notCall

\* mutant: no try/catch around the conversion, its failure leaves as it is
ConversionFailed_unwrapped(cause) ==
    /\ pc' = "Failed"
    /\ error' = {[kind |-> "DOMException", message |-> {cause}, status |-> {}]}
    /\ conv' = [stage |-> "failed", at |-> conv.stage, cause |-> cause]
    /\ UNCHANGED <<finalBlob, finalMimeType>>

\* the catch block of lines 155-158: whatever convertMp4ToWav threw is logged
\* and one Error is thrown in its place
ConversionFailed(cause) ==
    /\ pc' = "Failed"
    /\ error' = {ConversionError}
    /\ conv' = [stage |-> "failed", at |-> conv.stage, cause |-> cause]
    /\ UNCHANGED <<finalBlob, finalMimeType>>

\* file.arrayBuffer() resolved: lines 73-76, decodeAudioData is awaited
ConvertRead ==
    /\ pc = "Converting"
    /\ conv.stage = "arrayBuffer"
    /\ conv' = [stage |-> "decodeAudioData"]
    /\ UNCHANGED <<pc, apiKey, input, encoding, finalBlob, finalMimeType, base64Data, mimeType,
                   attempt, requests, waits, response, log, result, error>>
    /\ UNCHANGED notCall

\* decodeAudioData resolved: lines 76-94, the rendering is awaited, unless
\* the OfflineAudioContext of no frame cannot be constructed
ConvertDecoded ==
    /\ pc = "Converting"
    /\ conv.stage = "decodeAudioData"
    /\ \E audioBuffer \in DecodedBuffers :
          IF offlineLength(audioBuffer) >= 1
          THEN /\ conv' = [stage |-> "startRendering", length |-> offlineLength(audioBuffer)]
               /\ UNCHANGED <<pc, finalBlob, finalMimeType, error>>
          ELSE ConversionFailed("NotSupportedError")
    /\ UNCHANGED <<apiKey, input, encoding, base64Data, mimeType, attempt, requests, waits,
                   response, log, result>>
    /\ UNCHANGED notCall

\* startRendering resolved, so convertMp4ToWav did: lines 94-96 and 152-168
ConvertOk ==
    /\ pc = "Converting"
    /\ conv.stage = "startRendering"
    /\ \E buffer \in ResampledBuffers :
          /\ buffer.length = conv.length
          /\ SizeCheck(audioBufferToWav(buffer), "audio/wav")
    /\ conv' = [stage |-> "done"]
    /\ UNCHANGED <<apiKey, input, encoding, base64Data, mimeType, attempt, requests, waits,
                   response, log, result>>
    /\ UNCHANGED notCall

\* an await of convertMp4ToWav rejected, so convertMp4ToWav did: lines 155-158
ConvertFail ==
    /\ pc = "Converting"
    /\ \E cause \in ConversionCauses[conv.stage] : ConversionFailed(cause)
    /\ UNCHANGED <<apiKey, input, encoding, base64Data, mimeType, attempt, requests, waits,
                   response, log, result>>
    /\ UNCHANGED notCall

\* mutant: only the first attempt carries the audio
LoopEntry_promptOnly(a, mime, data) ==
    IF loopGuard(a)
    THEN /\ requests' = Append(requests, Request(mime, IF a = 0 THEN data
                                                  ELSE [base64of |-> [data.base64of EXCEPT !.size = 0]]))
         /\ pc' = "Requesting"
         /\ UNCHANGED error
    ELSE /\ pc' = "Failed"
         /\ error' = {ExhaustedRetriesError}
         /\ UNCHANGED requests

\* the head of the while loop, lines 191-206: a request, or line 236
LoopEntry(a, mime, data) ==
    IF loopGuard(a)
    THEN /\ requests' = Append(requests, Request(mime, data))
         /\ pc' = "Requesting"
         /\ UNCHANGED error
    ELSE /\ pc' = "Failed"
         /\ error' = {ExhaustedRetriesError}
         /\ UNCHANGED requests

\* mutant: the declared type of the payload is sent as it is
resolveMimeType_declared(finalMime, blob, originalName) == finalMime

\* line 170: the MIME type of the payload
resolveMimeType(finalMime, blob, originalName) ==
    IF finalMime = "audio/wav" THEN "audio/wav" ELSE getMimeType(blob, originalName)

\* the await of line 168 on the promise of fileToGenerativePart: resolved, on
\* to lines 170-206; rejected, analyzeAudio throws what it was rejected with;
\* neither, analyzeAudio stays suspended
AwaitEncoding(promise) ==
    /\ encoding' = promise
    /\ IF promise.state = "fulfilled"
       THEN LET data == TheOne(promise.value)
                mime == resolveMimeType(TheOne(finalMimeType), TheOne(finalBlob), input.name)
            IN  /\ base64Data' = {data}
                /\ mimeType' = {mime}
                /\ attempt' = 0
                /\ LoopEntry(0, mime, data)
       ELSE IF promise.state = "rejected"
       THEN /\ pc' = "Failed"
            /\ error' = promise.value
            /\ UNCHANGED <<base64Data, mimeType, attempt, requests>>
       ELSE UNCHANGED <<pc, error, base64Data, mimeType, attempt, requests>>

\* fileToGenerativePart resolved: the reader read the blob and fired load and
\* loadend
EncodeOk ==
    /\ pc = "Encoding"
    /\ AwaitEncoding(fileToGenerativePart(TheOne(finalBlob), {readAsDataURL(TheOne(finalBlob))},
                                          <<"load", "loadend">>))
    /\ UNCHANGED <<apiKey, input, finalBlob, finalMimeType, waits, response, log, result, conv>>
    /\ UNCHANGED notCall

\* the reader failed: its result is null and it fires error and loadend, which
\* the handlers may be given in either order
EncodeFail ==
    /\ pc = "Encoding"
    /\ \E events \in ReaderFailureOrders :
          AwaitEncoding(fileToGenerativePart(TheOne(finalBlob), {}, events))
    /\ UNCHANGED <<apiKey, input, finalBlob, finalMimeType, waits, response, log, result, conv>>
    /\ UNCHANGED notCall

\* the catch block, lines 218-233
Catch(e) ==
    /\ log' = Append(log, [attempt |-> attempt + 1, error |-> e])
    /\ IF shouldRetry(e, attempt)
       THEN /\ attempt' = nextAttempt(attempt)
            /\ waits' = Append(waits, backoffDelay(nextAttempt(attempt)))
            /\ pc' = "Backoff"
            /\ UNCHANGED error
       ELSE /\ pc' = "Failed"
            /\ error' = {IF messageIncludes(e, "400") THEN InvalidRequestError ELSE e}
            /\ UNCHANGED <<attempt, waits>>
    /\ UNCHANGED result

\* generateContent resolved: lines 208-217, and the catch block for what they throw
RespondOk ==
    /\ pc = "Requesting"
    /\ \E text \in ResponseTexts :
          /\ response' = {[text |-> text]}
          /\ IF text # {} /\ text # {""}
             THEN LET parsed == cleanAndParseJSON(TheOne(text))
                  IN  IF parsed.ok
                      THEN /\ pc' = "Done"
                           /\ result' = {parsed.val}
                           /\ UNCHANGED <<attempt, waits, log, error>>
                      ELSE Catch(ParseError)
             ELSE Catch(EmptyResponseError)
    /\ UNCHANGED <<apiKey, input, encoding, finalBlob, finalMimeType, base64Data, mimeType, requests, conv>>
    /\ UNCHANGED notCall

\* generateContent rejected: the catch block
RespondFail ==
    /\ pc = "Requesting"
    /\ \E e \in RemoteErrors : Catch(e)
    /\ UNCHANGED <<apiKey, input, encoding, finalBlob, finalMimeType, base64Data, mimeType,
                   requests, response, conv>>
    /\ UNCHANGED notCall

\* mutant: each attempt resolves the MIME type again, from the payload alone
attemptMimeType_again(a, mime, blob) ==
    IF a = 0 THEN mime ELSE getMimeType(blob, "")

\* the mimeType of line 170 is a constant of the call: line 200 reads it in
\* every attempt
attemptMimeType(a, mime, blob) == mime

\* mutant: the timer of the wait never fires
BackoffDone_lost ==
    /\ pc = "Backoff"
    /\ UNCHANGED vars

\* the backoff timer fired: continue, lines 226 and 191-206
BackoffDone ==
    /\ pc = "Backoff"
    /\ LoopEntry(attempt, attemptMimeType(attempt, TheOne(mimeType), TheOne(finalBlob)),
                 TheOne(base64Data))
    /\ UNCHANGED <<apiKey, input, encoding, finalBlob, finalMimeType, base64Data, mimeType,
                   attempt, waits, response, log, result, conv>>
    /\ UNCHANGED notCall

Next ==
    \/ Begin
    \/ ConvertRead
    \/ ConvertDecoded
    \/ ConvertOk
    \/ ConvertFail
    \/ EncodeOk
    \/ EncodeFail
    \/ RespondOk
    \/ RespondFail
    \/ BackoffDone

Spec == Init /\ [][Next]_vars

\* every awaited step settles: the call is made, each await of the
\* conversion, the blob read and the remote call resolves or rejects, and
\* the backoff timer fires
Fairness ==
    /\ WF_vars(Begin)
    /\ WF_vars(ConvertRead \/ ConvertDecoded \/ ConvertOk \/ ConvertFail)
    /\ WF_vars(EncodeOk \/ EncodeFail)
    /\ WF_vars(RespondOk \/ RespondFail)
    /\ WF_vars(BackoffDone)

SpecFair == Spec /\ Fairness

(***************************************************************************)
(* Properties.                                                             *)
(***************************************************************************)
Terminal == pc \in {"Done", "Failed"}

\* an error signals HTTP 500 or 503: by its status or in its message
Signals5xx(e) ==
    \/ e.status \cap {500, 503} # {}
    \/ \E m \in e.message : includes(m, "500") \/ includes(m, "503")

\* the last console record of the next state
LastLogged == log'[Len(log')]

\* a step in which the remote call of the pending attempt rejects
RemoteFailureStep ==
    /\ pc = "Requesting"
    /\ Len(log') = Len(log) + 1
    /\ LastLogged.error.kind = "ApiError"

\* a step in which the remote call of the pending attempt resolves
RemoteResponseStep == pc = "Requesting" /\ response' # response

\* C1: one analyzeAudio invocation issues at most 3 remote requests, numbered
\* 1..3, and the attempt counter never exceeds 3.
C1_AtMostThreeRequests ==
    /\ Len(requests) <= 3
    /\ attempt <= 3
    /\ \A i \in DOMAIN log : log[i].attempt \in 1..3

C1_Witness == pc = "Failed" /\ Len(requests) = 3 /\ Len(log) = 3

\* C2: a failed remote attempt k is followed by another remote attempt exactly
\* when its error signals 500 or 503 and k < 3; otherwise the failed attempt
\* is the last request: the call is over, and a call that is over takes no step.
C2_RetryIffTransientAndBudget ==
    [][ /\ RemoteFailureStep =>
             /\ LastLogged.attempt = Len(requests)
             /\ (pc' = "Backoff") <=> (Signals5xx(LastLogged.error) /\ LastLogged.attempt < 3)
             /\ pc' # "Backoff" => pc' = "Failed"
             /\ requests' = requests
        /\ pc = "Backoff" => (pc' = "Requesting" /\ Len(requests') = Len(requests) + 1)
        /\ ~Terminal
      ]_vars

C2_Witness ==
    /\ pc = "Requesting"
    /\ Len(requests) = 3
    /\ log[1].error = ApiError({}, {"read 1500 bytes"})
    /\ log[2].error = ApiError({500}, {})

\* C3: after two failures with status 503 and a success on the third attempt
\* analyzeAudio returns the parsed response, having waited 4000 ms and then
\* 8000 ms; the k-th wait is 2000 * 2^k ms, and every wait lies between two
\* requests: none before the first attempt, none after the outcome.
C3_BackoffSchedule ==
    /\ \A k \in DOMAIN waits : waits[k] = 2000 * (2 ^ k)
    /\ Len(waits) = IF pc = "Backoff" THEN Len(requests)
                    ELSE IF requests = <<>> THEN 0 ELSE Len(requests) - 1
    /\ (pc = "Done" /\ Len(log) = 2 /\ \A i \in 1..2 : 503 \in log[i].error.status) =>
           /\ waits = <<4000, 8000>>
           /\ Len(requests) = 3
           /\ error = {}
           /\ result = {cleanAndParseJSON(TheOne(TheOne(response).text)).val}

C3_Witness ==
    /\ pc = "Done"
    /\ Len(log) = 2
    /\ \A i \in 1..2 : 503 \in log[i].error.status
    /\ result = {cleanAndParseJSON(FullObjectText).val}

\* C4: a remote call that fails with status 400 makes analyzeAudio fail on the
\* first attempt with InvalidRequestError: one request, no wait.
C4_Status400IsInvalidRequest ==
    (Len(log) >= 1 /\ log[1].error.kind = "ApiError" /\ 400 \in log[1].error.status) =>
        /\ pc = "Failed"
        /\ error = {InvalidRequestError}
        /\ Len(requests) = 1
        /\ waits = <<>>

\* C5: when the remote call fails with a retryable 500/503 error on every one
\* of the 3 attempts, analyzeAudio fails with ExhaustedRetriesError.
C5_ExhaustedRetries ==
    (pc = "Failed" /\ Len(log) = 3 /\ \A i \in 1..3 : Signals5xx(log[i].error)) =>
        error = {ExhaustedRetriesError}

\* the size check of lines 163-165 has been passed or has thrown
SizeChecked ==
    \/ pc \in {"Encoding", "Requesting", "Backoff", "Done"}
    \/ pc = "Failed" /\ error \notin {{ConfigurationError}, {ConversionError}}

SizeRejected == pc = "Failed" /\ \E e \in error : messageIncludes(e, "exceeds the 10MB limit")

\* C6: a payload of 10 MiB + 1 byte is rejected with the SizeLimitError that
\* carries its size, one of 10 MiB is accepted; a rejected payload is neither
\* encoded nor sent.
C6_SizeLimitBoundary ==
    SizeChecked =>
        LET size == TheOne(finalBlob).size
        IN  /\ size > 10 * 1024 * 1024 =>
                  /\ pc = "Failed"
                  /\ error = {SizeLimitError(size)}
            /\ size <= 10 * 1024 * 1024 => ~SizeRejected
            /\ SizeRejected => (base64Data = {} /\ mimeType = {} /\ requests = <<>>)

C6_Witness ==
    /\ pc = "Failed"
    /\ \E blob \in finalBlob : blob.size = 10 * 1024 * 1024 + 1
    /\ error = {Error("Processed file size (10.0MB) exceeds the 10MB limit. Please upload a shorter recording.")}
    /\ requests = <<>>

\* the name ends in suffix, letter case aside
EndsWithNoCase(name, suffix) ==
    /\ Len(name) >= Len(suffix)
    /\ \A i \in 1..Len(suffix) :
          LowerChar(CharAt(name, Len(name) - Len(suffix) + i)) = CharAt(suffix, i)

ConversionTrigger(file) ==
    \/ EndsWithNoCase(file.name, ".mp4")
    \/ EndsWithNoCase(file.name, ".m4a")
    \/ includes(file.type, "mp4")

\* the blob a conversion produced: a WAV, which is not the input file
IsConvertedWav(blob) == blob # input /\ blob.type = "audio/wav" /\ blob.size >= 44

\* C7: the 10 MiB check judges the payload left by the optional conversion:
\* the converted WAV of an input that is converted, whatever the input's
\* size, and the input itself otherwise; nothing is rejected for its size
\* before the conversion.
C7_SizeCheckAfterConversion ==
    /\ pc = "Converting" => error = {}
    /\ SizeChecked =>
          IF ConversionTrigger(input)
          THEN /\ IsConvertedWav(TheOne(finalBlob))
               /\ SizeRejected <=> TheOne(finalBlob).size > 10 * 1024 * 1024
          ELSE SizeRejected <=> input.size > 10 * 1024 * 1024

C7_Witness ==
    /\ pc = "Encoding"
    /\ ConversionTrigger(input)
    /\ input.size = 100 * 1024 * 1024
    /\ TheOne(finalBlob).size = 10 * 1024 * 1024

\* the conversion path has been entered
ConversionPathTaken ==
    \/ pc = "Converting"
    \/ error = {ConversionError}
    \/ \E blob \in finalBlob : IsConvertedWav(blob)

\* C8: a name ending in .mp4 or .m4a, letter case aside, or a declared type
\* containing mp4 always takes the conversion path; any other input, a
\* .mp3 or .wav file with a non-mp4 type among them, never does and goes on
\* with its own bytes and declared type.
C8_ConversionGate ==
    (apiKey /\ pc # "Idle") =>
        IF ConversionTrigger(input)
        THEN ConversionPathTaken
        ELSE /\ ~ConversionPathTaken
             /\ finalBlob = {input}
             /\ finalMimeType = {input.type}

C8_Witness ==
    /\ pc = "Encoding"
    /\ input.name = "A.MP4"
    /\ input.type = "audio/mpeg"
    /\ IsConvertedWav(TheOne(finalBlob))

EmptyText(r) == r.text = {} \/ r.text = {""}

\* C9: an empty response text makes analyzeAudio fail at once with
\* EmptyResponseError, on any attempt: no request and no wait follows.
C9_EmptyResponseTerminal ==
    [][ /\ (RemoteResponseStep /\ EmptyText(TheOne(response'))) =>
             /\ pc' = "Failed"
             /\ error' = {EmptyResponseError}
             /\ requests' = requests
             /\ waits' = waits
             /\ result' = {}
        /\ pc = "Failed" => FALSE
      ]_vars

C9_Witness ==
    /\ pc = "Failed"
    /\ error = {EmptyResponseError}
    /\ response = {[text |-> {""}]}
    /\ Len(requests) = 2

\* C10: a response text that is not empty and does not parse makes
\* analyzeAudio fail with ParseError on whichever attempt it arrived: no
\* further request is issued.
C10_ParseFailureTerminal ==
    [][ /\ ( /\ RemoteResponseStep
             /\ ~EmptyText(TheOne(response'))
             /\ ~cleanAndParseJSON(TheOne(TheOne(response').text)).ok ) =>
             /\ pc' = "Failed"
             /\ error' = {ParseError}
             /\ requests' = requests
             /\ waits' = waits
             /\ result' = {}
        /\ (pc = "Failed" /\ error = {ParseError}) => FALSE
      ]_vars

C10_Witness ==
    /\ pc = "Failed"
    /\ error = {ParseError}
    /\ response = {[text |-> {"Here is the analysis: {}"}]}
    /\ Len(requests) = 3

\* the conversion failed: convertMp4ToWav threw and line 157 threw in its place
ConversionHasFailed == conv.stage = "failed"

\* C11: whichever await or statement of the conversion fails, the call is
\* Failed with the one ConversionError and its user-facing message; the size
\* limit is not applied (an input over it fails the same way), nothing is
\* encoded or requested, and no step follows: the conversion is not retried.
C11_ConversionFailureWrapped ==
    /\ [](ConversionHasFailed =>
            /\ pc = "Failed"
            /\ error = {ConversionError}
            /\ finalBlob = {input}
            /\ base64Data = {}
            /\ mimeType = {}
            /\ requests = <<>>
            /\ waits = <<>>)
    /\ [][ConversionHasFailed => FALSE]_vars

C11_Witness ==
    /\ ConversionHasFailed
    /\ conv.at = "startRendering"
    /\ input.size > SIZE_LIMIT
    /\ pc = "Failed"

\* C12: without the credential analyzeAudio fails with ConfigurationError as
\* its first step, whatever the input: nothing is converted, checked for
\* size, encoded or requested.
C12_MissingKeyFailsFirst ==
    ~apiKey =>
        \/ pc = "Idle"
        \/ /\ pc = "Failed"
           /\ error = {ConfigurationError}
           /\ conv.stage = "none"
           /\ finalBlob = {}
           /\ finalMimeType = {}
           /\ base64Data = {}
           /\ requests = <<>>
           /\ waits = <<>>
           /\ log = <<>>

C12_Witness ==
    /\ ~apiKey
    /\ pc = "Failed"
    /\ needsConversion(input)
    /\ input.size > SIZE_LIMIT

\* the five fields of CallAnalysis
CallAnalysisFields == {"transcript", "summary", "sentiment", "actionItems", "keyInsights"}

IsCallAnalysis(v) == v.kind = "object" /\ CallAnalysisFields \subseteq DOMAIN v.members

\* C13, as stated: whenever analyzeAudio reaches Done, the returned value
\* has all five fields transcript, summary, sentiment, actionItems and
\* keyInsights.
C13_ResultHasFiveFields ==
    pc = "Done" => \A r \in result : IsCallAnalysis(r)

\* C13, amended: a value is returned exactly when analyzeAudio is Done, and
\* it is the JSON value of the last response's text (of the interior of its
\* fenced block, if it has one), with the fields that text carries and no
\* others: a response that is empty or does not parse returns nothing.
C13_ResultIsParsedResponse ==
    /\ result # {} <=> pc = "Done"
    /\ pc = "Done" =>
          /\ error = {}
          /\ \E r \in response : \E text \in r.text :
                LET match     == codeBlockMatch(text)
                    cleanText == IF match # {} THEN TheOne(match) ELSE text
                IN  /\ text # ""
                    /\ JSONparse(cleanText).ok
                    /\ result = {JSONparse(cleanText).val}

C13_Witness ==
    /\ pc = "Done"
    /\ result = {JsonObject("summary" :> JsonString("s"))}

(***************************************************************************)
(* cleanAndParseJSON on its own: called with response texts of many        *)
(* shapes, each a JSON text or a broken one, bare or inside a fenced       *)
(* block, with or without prose around it.                                 *)
(***************************************************************************)
JsonContents ==
    { "{}", FullObjectText, "{\"summary\":\"s\"}", "{ \"a\" : 1 }",
      "{\"a\":{\"b\":[1,2]}}",
      "{\"a\":\"" \o Fence \o "\"}",
      "{\"a\":\"" \o Fence \o "x" \o Fence \o "\"}",
      "null", "true", "42", "\"s\"", "[]", "[1,{}]",
      "{", "" }

Wrappers == {"none", "padded", "json", "plain", "tight", "prose", "twoBlocks", "unclosed"}

\* the fenced code blocks: the content alone between two fences
FencedWrappers == {"json", "plain", "tight"}

wrap(wrapper, content) ==
    CASE wrapper = "none"      -> content
      [] wrapper = "padded"    -> "  " \o content \o "\n"
      [] wrapper = "json"      -> Fence \o "json\n" \o content \o "\n" \o Fence
      [] wrapper = "plain"     -> Fence \o "\n" \o content \o "\n" \o Fence
      [] wrapper = "tight"     -> Fence \o content \o Fence
      [] wrapper = "prose"     -> "Here is the analysis:\n" \o Fence \o "json\n" \o content
                                      \o "\n" \o Fence \o "\nDone."
      [] wrapper = "twoBlocks" -> Fence \o content \o Fence \o " " \o Fence \o "null" \o Fence
      [] wrapper = "unclosed"  -> Fence \o "json\n" \o content

InitParse == CallIdle /\ ParseIdle /\ ConcIdle /\ WavIdle /\ InitApp /\ MimeIdle

\* one call: lines 128-133
Parse ==
    /\ \E content \in JsonContents, wrapper \in Wrappers :
          /\ parseIn' = {[content |-> content, wrapper |-> wrapper,
                          text |-> wrap(wrapper, content)]}
          /\ parseOut' = {cleanAndParseJSON(wrap(wrapper, content))}
    /\ UNCHANGED notParse

NextParse == Parse

SpecParse == InitParse /\ [][NextParse]_vars

\* the text is that of a JSON object
IsJsonObjectText(s) == JSONparse(s).ok /\ JSONparse(s).val.kind = "object"

\* C14, as stated: cleanAndParseJSON yields a result only if a JSON object
\* was recovered from the text; a recovered content that is not well-formed,
\* or is a JSON scalar, null or an array, yields none.
C14_OnlyObjectsYieldResult ==
    \A in \in parseIn, out \in parseOut :
        /\ out.ok => out.val.kind = "object"
        /\ (in.wrapper = "none" /\ ~IsJsonObjectText(in.content)) => ~out.ok

\* C15, as stated: for every JSON object J, J inside a fenced block, tagged
\* json or not, parses to what J parses to, and so does J with no fence
\* around it; a text with a fenced block in it is parsed as the interior of
\* the block, any other text as a whole.
C15_FencedEqualsDirect ==
    \A in \in parseIn, out \in parseOut :
        /\ (IsJsonObjectText(in.content) /\ in.wrapper \in FencedWrappers \cup {"none"}) =>
              out = JSONparse(in.content)
        /\ in.wrapper \in FencedWrappers \cup {"prose", "twoBlocks"} =>
              out = JSONparse(in.content)
        /\ in.wrapper \in {"none", "padded", "unclosed"} =>
              out = JSONparse(in.text)

\* what analyzeAudio returns when its first attempt is answered with the text
FirstAttemptResult(text) == cleanAndParseJSON(text).val

\* C16: a response that parses, arriving after 0, 1 or 2 retryable failures,
\* makes analyzeAudio return what the same response to the first attempt
\* makes it return, with no error: every attempt sent the same request, the
\* failures before it left only console records and waits.
C16_TransientFailuresInvisible ==
    [][ ( /\ RemoteResponseStep
          /\ ~EmptyText(TheOne(response'))
          /\ cleanAndParseJSON(TheOne(TheOne(response').text)).ok ) =>
            /\ pc' = "Done"
            /\ error' = {}
            /\ result' = {FirstAttemptResult(TheOne(TheOne(response').text))}
            /\ Len(log') \in 0..2
            /\ \A i \in DOMAIN log' : isRetryable(log'[i].error)
            /\ Len(waits') = Len(log')
            /\ Len(requests') = Len(log') + 1
            /\ \A i \in DOMAIN requests' : requests'[i] = requests'[1]
      ]_vars

C16_Witness ==
    /\ pc = "Done"
    /\ Len(log) = 2
    /\ response = {[text |-> {FullObjectText}]}
    /\ result = {FirstAttemptResult(FullObjectText)}

(***************************************************************************)
(* Several analyzeAudio invocations in progress at once, each on a file of *)
(* its own: one JavaScript thread, so the invocations interleave at their  *)
(* awaits. invocation[i] holds the locals of invocation i (the API key is set,  *)
(* no file needs conversion).                                              *)
(***************************************************************************)
NumCalls == 2

Invocations == 1..NumCalls

\* the file of invocation i
ConcFile(i) == [name |-> IntToStr(i) \o ".mp3", type |-> "", size |-> SIZE_LIMIT - i]

ConcErrors == { ApiError({503}, {"Service Unavailable"}), ApiError({400}, {"400 Bad Request"}) }

ConcTexts == { {""}, {FullObjectText} }

\* mutant: attempt is a variable of the module, one for all invocations
setAttempt_shared(cs, i, a) == [j \in DOMAIN cs |-> [cs[j] EXCEPT !.attempt = a]]

\* attempt is a local of the invocation: line 188
setAttempt(cs, i, a) == [cs EXCEPT ![i].attempt = a]

InitConc ==
    /\ CallIdle
    /\ ParseIdle
    /\ WavIdle
    /\ InitApp
    /\ MimeIdle
    /\ invocation = [i \in Invocations |->
                  [pc |-> "Idle", input |-> ConcFile(i), payload |-> {}, attempt |-> 0,
                   sent |-> <<>>, waits |-> <<>>, failures |-> 0,
                   result |-> {}, error |-> {}]]

\* lines 136-170 of invocation i, up to the await of fileToGenerativePart
ConcBegin(i) ==
    /\ invocation[i].pc = "Idle"
    /\ invocation' = IF exceedsLimit(invocation[i].input)
                THEN [invocation EXCEPT ![i].pc = "Failed",
                                   ![i].error = {SizeLimitError(invocation[i].input.size)}]
                ELSE [invocation EXCEPT ![i].pc = "Encoding"]
    /\ UNCHANGED notConc

\* fileToGenerativePart of invocation i resolved: lines 168-206
ConcEncodeOk(i) ==
    /\ invocation[i].pc = "Encoding"
    /\ LET data == base64(invocation[i].input)
           mime == getMimeType(invocation[i].input, invocation[i].input.name)
       IN  invocation' = setAttempt([invocation EXCEPT ![i].pc = "Requesting",
                                             ![i].payload = {Request(mime, data)},
                                             ![i].sent = <<Request(mime, data)>>],
                               i, 0)
    /\ UNCHANGED notConc

\* generateContent of invocation i resolved: lines 208-217 and the catch block
ConcRespondOk(i) ==
    /\ invocation[i].pc = "Requesting"
    /\ \E text \in ConcTexts :
          invocation' = IF text # {} /\ text # {""}
                   THEN [invocation EXCEPT ![i].pc = "Done",
                             ![i].result = {cleanAndParseJSON(TheOne(text)).val}]
                   ELSE [invocation EXCEPT ![i].pc = "Failed",
                             ![i].failures = @ + 1,
                             ![i].error = {EmptyResponseError}]
    /\ UNCHANGED notConc

\* generateContent of invocation i rejected: the catch block, lines 218-233
ConcRespondFail(i) ==
    /\ invocation[i].pc = "Requesting"
    /\ \E e \in ConcErrors :
          invocation' = IF shouldRetry(e, invocation[i].attempt)
                   THEN setAttempt([invocation EXCEPT ![i].pc = "Backoff",
                                        ![i].failures = @ + 1,
                                        ![i].waits = Append(@, backoffDelay(nextAttempt(invocation[i].attempt)))],
                                   i, nextAttempt(invocation[i].attempt))
                   ELSE [invocation EXCEPT ![i].pc = "Failed",
                             ![i].failures = @ + 1,
                             ![i].error = {IF messageIncludes(e, "400")
                                           THEN InvalidRequestError ELSE e}]
    /\ UNCHANGED notConc

\* the backoff timer of invocation i fired: continue, lines 226 and 191-206
ConcBackoffDone(i) ==
    /\ invocation[i].pc = "Backoff"
    /\ invocation' = IF loopGuard(invocation[i].attempt)
                THEN [invocation EXCEPT ![i].pc = "Requesting",
                                   ![i].sent = Append(@, TheOne(invocation[i].payload))]
                ELSE [invocation EXCEPT ![i].pc = "Failed",
                                   ![i].error = {ExhaustedRetriesError}]
    /\ UNCHANGED notConc

NextConc ==
    \/ \E i \in Invocations : ConcBegin(i)
    \/ \E i \in Invocations : ConcEncodeOk(i)
    \/ \E i \in Invocations : ConcRespondOk(i)
    \/ \E i \in Invocations : ConcRespondFail(i)
    \/ \E i \in Invocations : ConcBackoffDone(i)

SpecConc == InitConc /\ [][NextConc]_vars

\* the retry state of an invocation is the one its own failures produced
OwnRetryState(c) ==
    /\ c.attempt \in 0..(maxRetries - 1)
    /\ c.pc \in {"Requesting", "Backoff"} => c.attempt = c.failures
    /\ c.pc \in {"Done", "Failed"} => c.attempt \in {c.failures, c.failures - 1}
    /\ Len(c.waits) = c.attempt
    /\ \A k \in DOMAIN c.waits : c.waits[k] = 2000 * pow(2, k)
    /\ Len(c.sent) = (IF c.pc = "Backoff" THEN c.attempt
                      ELSE IF c.payload = {} THEN 0 ELSE c.attempt + 1)
    /\ \A k \in DOMAIN c.sent :
          c.sent[k].data = base64(c.input) /\ {c.sent[k]} = c.payload
    /\ c.result # {} <=> c.pc = "Done"
    /\ c.error # {} <=> c.pc = "Failed"

\* C17: under every interleaving of the invocations, a step of one (a
\* failure, a retry, a wait that ends) leaves every local of the others as
\* it is, and each invocation's attempt counter, waits, requests and outcome
\* are those of its own failures and its own file.
C17_InvocationsIndependent ==
    /\ [](\A i \in DOMAIN invocation : OwnRetryState(invocation[i]))
    /\ [][\A i, j \in DOMAIN invocation :
            (i # j /\ invocation'[i] # invocation[i]) => invocation'[j] = invocation[j]]_vars

C17_Witness ==
    /\ NumCalls >= 2
    /\ DOMAIN invocation = Invocations
    /\ invocation[1].pc = "Failed" /\ invocation[1].failures = 3 /\ invocation[1].attempt = 2
    /\ invocation[2].pc = "Done" /\ invocation[2].failures = 1 /\ invocation[2].attempt = 1

(***************************************************************************)
(* audioBufferToWav on its own, byte by byte. A DataView is the sequence   *)
(* of its bytes, the byte at offset o being element o + 1. A sample is the *)
(* numerator of a fraction of denominator Den: Den is 1.0, every product   *)
(* the code forms is then an exact double.                                 *)
(***************************************************************************)
MaxChannels == 2
MaxFrames == 2

Den == 32768

\* Math.trunc of a / b, the integer part the DataView setters keep
truncDiv(a, b) == IF a >= 0 THEN a \div b ELSE 0 - ((0 - a) \div b)

\* byte j (0 the lowest) of a non-negative integer
byteOf(value, j) == (value \div pow(256, j)) % 256

\* DataView.setUint32 and setUint16, of an integer in their range
setUint32(dv, byteOffset, value, littleEndian) ==
    [k \in DOMAIN dv |->
        IF k - 1 \in byteOffset..(byteOffset + 3)
        THEN byteOf(value, IF littleEndian THEN k - 1 - byteOffset ELSE 3 - (k - 1 - byteOffset))
        ELSE dv[k]]

setUint16(dv, byteOffset, value, littleEndian) ==
    [k \in DOMAIN dv |->
        IF k - 1 \in byteOffset..(byteOffset + 1)
        THEN byteOf(value % 65536, IF littleEndian THEN k - 1 - byteOffset ELSE 1 - (k - 1 - byteOffset))
        ELSE dv[k]]

\* the two bytes DataView.setInt16 stores for the number num / den: its
\* integer part modulo 2^16, in two's complement
int16Bytes(num, den, j) == byteOf(truncDiv(num, den) % 65536, j)

\* DataView.getUint32, getUint16 and getInt16, little-endian
getUint32(dv, byteOffset) ==
    dv[byteOffset + 1] + 256 * dv[byteOffset + 2]
        + 65536 * dv[byteOffset + 3] + 16777216 * dv[byteOffset + 4]

getUint16(dv, byteOffset) == dv[byteOffset + 1] + 256 * dv[byteOffset + 2]

getInt16(dv, byteOffset) ==
    IF getUint16(dv, byteOffset) >= 32768
    THEN getUint16(dv, byteOffset) - 65536
    ELSE getUint16(dv, byteOffset)

writeWavHeader(dv, sampleRate, numChannels, dataLength) ==
    LET fileLength == dataLength + 36
        v1  == setUint32(dv, 0, 1380533830, FALSE)
        v2  == setUint32(v1, 4, fileLength, TRUE)
        v3  == setUint32(v2, 8, 1463899717, FALSE)
        v4  == setUint32(v3, 12, 1718449184, FALSE)
        v5  == setUint32(v4, 16, 16, TRUE)
        v6  == setUint16(v5, 20, 1, TRUE)
        v7  == setUint16(v6, 22, numChannels, TRUE)
        v8  == setUint32(v7, 24, sampleRate, TRUE)
        v9  == setUint32(v8, 28, sampleRate * numChannels * 2, TRUE)
        v10 == setUint16(v9, 32, numChannels * 2, TRUE)
        v11 == setUint16(v10, 34, 16, TRUE)
        v12 == setUint32(v11, 36, 1684108385, FALSE)
    IN  setUint32(v12, 40, dataLength, TRUE)

\* buffer.getChannelData(channel)[i]
getChannelData(buffer, channel, i) == buffer.channelData[channel + 1][i + 1]

\* Math.max(-1, Math.min(1, sample))
clamp(sample) == IF sample > Den THEN Den ELSE IF sample < 0 - Den THEN 0 - Den ELSE sample

\* mutant: both signs are scaled by 0x8000
scaled_symmetric(clamped) == clamped * 32768

\* clamped < 0 ? clamped * 0x8000 : clamped * 0x7FFF, as a numerator over Den
scaled(clamped) == IF clamped < 0 THEN clamped * 32768 ELSE clamped * 32767

\* mutant: the channels are left out of the data length
dataLength_mono(buffer) == buffer.length * 2

\* length of line 46
dataLength(buffer) == buffer.length * buffer.numberOfChannels * 2

\* DataView.setInt16 of the number num / Den
setInt16(dv, byteOffset, num, littleEndian) ==
    [k \in DOMAIN dv |->
        IF k - 1 \in byteOffset..(byteOffset + 1)
        THEN int16Bytes(num, Den, IF littleEndian THEN k - 1 - byteOffset
                                  ELSE 1 - (k - 1 - byteOffset))
        ELSE dv[k]]

\* the inner loop, lines 55-65: the channels of frame i from channel on;
\* w is the DataView and let offset
RECURSIVE writeChannels(_, _, _, _)
writeChannels(w, buffer, i, channel) ==
    IF channel < buffer.numberOfChannels
    THEN LET sample == getChannelData(buffer, channel, i)
             int16  == scaled(clamp(sample))
         IN  writeChannels([view |-> setInt16(w.view, w.offset, int16, TRUE),
                            offset |-> w.offset + 2],
                           buffer, i, channel + 1)
    ELSE w

\* mutant: one channel after the other, each with all its frames
writeFrames_planar(w, buffer, i) ==
    [view |-> [k \in DOMAIN w.view |->
                  IF k <= w.offset THEN w.view[k]
                  ELSE LET n == (k - 1 - w.offset) \div 2
                           int16 == scaled(clamp(getChannelData(buffer, n \div buffer.length,
                                                                n % buffer.length)))
                       IN  int16Bytes(int16, Den, (k - 1 - w.offset) % 2)],
     offset |-> w.offset + 2 * buffer.length * buffer.numberOfChannels]

\* the outer loop, lines 54-66: the frames from i on
RECURSIVE writeFrames(_, _, _)
writeFrames(w, buffer, i) ==
    IF i < buffer.length
    THEN writeFrames(writeChannels(w, buffer, i, 0), buffer, i + 1)
    ELSE w

\* lines 45-66: the DataView over the ArrayBuffer and let offset once the
\* header and the samples are written
writeWav(buffer) ==
    LET numChannels == buffer.numberOfChannels
        length      == dataLength(buffer)
        arrayBuffer == [k \in 1..(44 + length) |-> 0]
        header      == writeWavHeader(arrayBuffer, buffer.sampleRate, numChannels, length)
    IN  writeFrames([view |-> header, offset |-> 44], buffer, 0)

\* the bytes of the ArrayBuffer that audioBufferToWav wraps in a Blob
audioBufferToWavBytes(buffer) == writeWav(buffer).view

\* samples of interest: 0, the smallest fractions, +-1.0 and its
\* neighbours, halves, values out of range
SampleValues ==
    << Den, 0 - Den, 1, 0 - 1, Den + 1, 0 - (Den + 1), 0, 2, 0 - 2,
       Den - 1, 0 - (Den - 1), Den \div 2, 0 - (Den \div 2), 3 * Den, 0 - (3 * Den) >>

\* channel data that walks through SampleValues from a starting point
ChannelData(start, numChannels, length) ==
    [c \in 1..numChannels |->
        [i \in 1..length |->
            SampleValues[((start + (i - 1) * numChannels + (c - 1)) % Len(SampleValues)) + 1]]]

SampleRates == {16000, 44100, 192000}

AudioBuffers ==
    { [numberOfChannels |-> ch, length |-> len, sampleRate |-> sr,
       channelData |-> ChannelData(start, ch, len)] :
        ch \in 1..MaxChannels, len \in 1..MaxFrames, sr \in SampleRates,
        start \in 0..(Len(SampleValues) - 1) }

InitWav == CallIdle /\ ParseIdle /\ ConcIdle /\ WavIdle /\ InitApp /\ MimeIdle

\* the call: lines 44-69
Encode ==
    /\ wavIn = {}
    /\ \E buffer \in AudioBuffers :
          /\ wavIn' = {buffer}
          /\ wavOut' = {audioBufferToWavBytes(buffer)}
          /\ wavOffset' = {writeWav(buffer).offset}
    /\ UNCHANGED notWav

NextWav == Encode

SpecWav == InitWav /\ [][NextWav]_vars

\* C19: the encoder's output is 44 + frames x channels x 2 bytes long, and
\* the header read back gives the input's sample rate at offset 24, its
\* channel count at 22 and the data length at 40, with chunk size = data
\* length + 36 at 4, byte rate = sample rate x channels x 2 at 28 and block
\* align = channels x 2 at 32.
C19_WavHeaderRoundTrip ==
    \A buffer \in wavIn, wav \in wavOut :
        /\ Len(wav) = 44 + buffer.length * buffer.numberOfChannels * 2
        /\ Len(wav) = audioBufferToWav(buffer).size
        /\ getUint32(wav, 24) = buffer.sampleRate
        /\ getUint16(wav, 22) = buffer.numberOfChannels
        /\ getUint32(wav, 40) = Len(wav) - 44
        /\ getUint32(wav, 4) = getUint32(wav, 40) + 36
        /\ getUint32(wav, 28) = buffer.sampleRate * buffer.numberOfChannels * 2
        /\ getUint16(wav, 32) = buffer.numberOfChannels * 2

C19_Witness ==
    \E buffer \in wavIn, wav \in wavOut :
        /\ buffer.numberOfChannels = 2
        /\ buffer.length = 2
        /\ buffer.sampleRate = 44100
        /\ Len(wav) = 52
        /\ getUint32(wav, 28) = 176400

\* the positions of the samples of a buffer: channel and frame
SamplePositions(buffer) ==
    (0..(buffer.numberOfChannels - 1)) \X (0..(buffer.length - 1))

\* the 16-bit integer emitted for the sample of a channel and frame
Emitted(wav, buffer, channel, i) ==
    getInt16(wav, 44 + 2 * (i * buffer.numberOfChannels + channel))

\* C20, as stated: a sample of +1.0 or more is emitted as 32767 and one of
\* -1.0 or less as -32768, and every emitted value lies in -32768..32767
\* and has the sign of its sample.
C20_EmittedHasSignOfSample ==
    \A buffer \in wavIn, wav \in wavOut : \A p \in SamplePositions(buffer) :
        LET sample == getChannelData(buffer, p[1], p[2])
            int16  == Emitted(wav, buffer, p[1], p[2])
        IN  /\ sample >= Den => int16 = 32767
            /\ sample <= 0 - Den => int16 = 0 - 32768
            /\ int16 \in (0 - 32768)..32767
            /\ sample > 0 <=> int16 > 0
            /\ sample < 0 <=> int16 < 0

\* C20, amended: a sample of +1.0 or more is emitted as 32767 and one of
\* -1.0 or less as -32768; the number handed to setInt16 is always within
\* -32768..32767, so nothing wraps, and the emitted value is its integer
\* part: never of the sign opposite to the sample's, and 0 for a positive
\* sample below 1/32767.
C20_ScalingNeverWraps ==
    \A buffer \in wavIn, wav \in wavOut : \A p \in SamplePositions(buffer) :
        LET sample == getChannelData(buffer, p[1], p[2])
            int16  == Emitted(wav, buffer, p[1], p[2])
        IN  /\ sample >= Den => int16 = 32767
            /\ sample <= 0 - Den => int16 = 0 - 32768
            /\ truncDiv(scaled(clamp(sample)), Den) \in (0 - 32768)..32767
            /\ int16 = truncDiv(scaled(clamp(sample)), Den)
            /\ sample >= 0 => int16 >= 0
            /\ sample <= 0 => int16 <= 0
            /\ (sample > 0 /\ scaled(clamp(sample)) < Den) => int16 = 0

C20_Witness ==
    \E buffer \in wavIn, wav \in wavOut :
        /\ buffer.channelData = << <<Den, 1>>, <<0 - Den, 0 - 1>> >>
        /\ SubSeq(wav, 45, 52) = <<255, 127, 0, 128, 0, 0, 255, 255>>

\* C24: the samples are interleaved with the channel running fastest: the
\* sample of frame i and channel c is the little-endian int16 at byte offset
\* 44 + 2 x (i x channels + c), so that the channels of frame i all come
\* before frame i + 1, and the write offset ends at the end of the buffer.
C24_InterleavedChannelFastest ==
    \A buffer \in wavIn, wav \in wavOut, offset \in wavOffset :
        /\ \A p \in SamplePositions(buffer) :
              LET at == 44 + 2 * (p[2] * buffer.numberOfChannels + p[1])
              IN  /\ getInt16(wav, at) = truncDiv(scaled(clamp(getChannelData(buffer, p[1], p[2]))), Den)
                  /\ at + 2 <= Len(wav)
                  /\ \A q \in SamplePositions(buffer) :
                        q[2] = p[2] + 1 =>
                            at < 44 + 2 * (q[2] * buffer.numberOfChannels + q[1])
        /\ offset = Len(wav)
        /\ offset = 44 + dataLength(buffer)

\* two channels of two frames with four different samples, in the order
\* frame 0 left, frame 0 right, frame 1 left, frame 1 right
C24_Witness ==
    \E buffer \in wavIn, wav \in wavOut :
        /\ buffer.channelData = << <<0 - Den, 0 - 1>>, <<1, Den + 1>> >>
        /\ SubSeq(wav, 45, 52) = <<0, 128, 0, 0, 255, 255, 255, 127>>
        /\ wavOffset = {52}

(***************************************************************************)
(* The App and its CallUploader. The uploader exists while the upload view *)
(* is shown; a handleProcess that awaits analyzeAudio goes on after its    *)
(* uploader is gone. analyzeAudio is the promise it returns: it resolves   *)
(* with an analysis or rejects with one of its errors.                     *)
(***************************************************************************)
MaxAnalyses == 2

UPLOAD_LIMIT == 100 * 1024 * 1024

\* the files a change or drop event may carry
UiFiles ==
    [name : {"c.mp3"}, type : {"audio/mpeg"}, size : {UPLOAD_LIMIT, UPLOAD_LIMIT + 1}]
    \cup [name : {"A.MP4"}, type : {""}, size : {SIZE_LIMIT}]
    \cup [name : {"notes.txt"}, type : {"text/plain"}, size : {SIZE_LIMIT, UPLOAD_LIMIT + 1}]

\* what analyzeAudio may reject with
UiErrors ==
    { ConfigurationError, SizeLimitError(SIZE_LIMIT + 1), ApiError({500}, {"Internal error"}),
      ParseError, ReaderErrorEvent }

startsWith(s, prefix) == StartsAt(s, 1, prefix)

\* mutant: no upfront limit
tooLarge_never(file) == FALSE

\* file.size > 100 * 1024 * 1024: line 43
tooLarge(file) == file.size > UPLOAD_LIMIT

isValidType(file) ==
    \/ startsWith(file.type, "audio/")
    \/ startsWith(file.type, "video/mp4")
    \/ endsWith(toLowerCase(file.name), ".mp4")
    \/ endsWith(toLowerCase(file.name), ".m4a")

\* the uploader's state after validateAndSetFile(file): lines 40-61
validateAndSetFile(u, file) ==
    IF tooLarge(file)
    THEN [u EXCEPT !.error = {"File is too large. Please upload a file smaller than 100MB."},
                   !.file = {}]
    ELSE IF isValidType(file)
    THEN [u EXCEPT !.file = {file}, !.error = {}]
    ELSE [u EXCEPT !.error = {"Please upload a valid audio file (MP3, WAV, M4A, MP4)."}]

\* the message shown for what analyzeAudio threw: lines 87-94
errorMessage(err) ==
    IF err.message = {} THEN "Analysis failed. Please try again."
    ELSE LET message == TheOne(err.message)
         IN  IF includes(message, "API Key") THEN "API Key is missing or invalid."
             ELSE IF includes(message, "File size") THEN message
             ELSE IF includes(message, "500") \/ includes(message, "Internal")
             THEN "Server error. Please try a shorter audio clip."
             ELSE "Analysis failed. Please try again."

\* a CallUploader as it is mounted: lines 12-15; offered is the file of the
\* last change or drop event
NewUploader == [file |-> {}, error |-> {}, isProcessing |-> FALSE, isDragging |-> FALSE,
                offered |-> {}]

\* setView(v) and the rendering that follows: the uploader is mounted with
\* the upload view and gone with it
setView(v) ==
    /\ view' = v
    /\ IF view = "upload" /\ v # "upload"
       THEN /\ uploader' = {}
            /\ pending' = {[a EXCEPT !.mounted = FALSE] : a \in pending}
       ELSE IF view # "upload" /\ v = "upload"
       THEN uploader' = {NewUploader} /\ UNCHANGED pending
       ELSE UNCHANGED <<uploader, pending>>

\* the Dashboard button of the sidebar: line 304
NavDashboard ==
    /\ setView("dashboard")
    /\ UNCHANGED <<selectedCall, calls, started, settled>>
    /\ UNCHANGED notUi

\* the New Analysis button, the + of the mobile header: lines 313, 347
NavUpload ==
    /\ setView("upload")
    /\ UNCHANGED <<selectedCall, calls, started, settled>>
    /\ UNCHANGED notUi

\* a row of the Dashboard's table: onViewDetails, lines 259-262, 278-281
ViewDetails ==
    /\ view = "dashboard" \/ (view = "details" /\ selectedCall = {})
    /\ \E i \in DOMAIN calls :
          /\ selectedCall' = {calls[i]}
          /\ setView("details")
    /\ UNCHANGED <<calls, started, settled>>
    /\ UNCHANGED notUi

\* mutant: the selection is cleared and the view stays
Back_keepView ==
    /\ view = "details" /\ selectedCall # {}
    /\ selectedCall' = {}
    /\ UNCHANGED <<view, uploader, pending, calls, started, settled>>
    /\ UNCHANGED notUi

\* the back button of CallDetail: onBack, lines 272-275
Back ==
    /\ view = "details" /\ selectedCall # {}
    /\ selectedCall' = {}
    /\ setView("dashboard")
    /\ UNCHANGED <<calls, started, settled>>
    /\ UNCHANGED notUi

\* the Cancel button of the uploader: onCancel, line 266
Cancel ==
    /\ \E u \in uploader : ~u.isProcessing
    /\ setView("dashboard")
    /\ UNCHANGED <<selectedCall, calls, started, settled>>
    /\ UNCHANGED notUi

\* handleDragOver and handleDragLeave: lines 17-24
Drag ==
    /\ \E u \in uploader, over \in BOOLEAN :
          /\ ~u.isProcessing
          /\ uploader' = {[u EXCEPT !.isDragging = over]}
    /\ UNCHANGED <<view, selectedCall, calls, pending, started, settled>>
    /\ UNCHANGED notUi

\* handleDrop and handleFileChange with a file: lines 26-38
SelectFile ==
    /\ \E u \in uploader, file \in UiFiles :
          /\ ~u.isProcessing
          /\ uploader' = {validateAndSetFile([u EXCEPT !.isDragging = FALSE, !.offered = {file}],
                                             file)}
    /\ UNCHANGED <<view, selectedCall, calls, pending, started, settled>>
    /\ UNCHANGED notUi

\* handleProcess up to its await: lines 63-77
Process ==
    /\ started < MaxAnalyses
    /\ \E u \in uploader :
          /\ ~u.isProcessing
          /\ u.file # {}
          /\ uploader' = {[u EXCEPT !.isProcessing = TRUE, !.error = {}]}
          /\ pending' = pending \cup
                {[id |-> started + 1, file |-> TheOne(u.file), mounted |-> TRUE]}
    /\ started' = started + 1
    /\ UNCHANGED <<view, selectedCall, calls, settled>>
    /\ UNCHANGED notUi

\* completedRecord of lines 79-83
CompletedRecord(a) ==
    [id |-> a.id, fileName |-> a.file.name, timestamp |-> a.id, status |-> "completed",
     analysis |-> FirstAttemptResult(FullObjectText)]

\* the promise of the analyzeAudio call a settled: how, and whether its
\* uploader was still there
Settled(a, outcome) == [id |-> a.id, outcome |-> outcome, mounted |-> a.mounted]

\* mutant: the record of a handleProcess whose uploader is gone is dropped
AnalysisResolved_onlyIfMounted ==
    /\ \E a \in pending :
          /\ settled' = settled \cup {Settled(a, "resolved")}
          /\ IF a.mounted
             THEN /\ calls' = <<CompletedRecord(a)>> \o calls
                  /\ selectedCall' = {CompletedRecord(a)}
                  /\ view' = "details"
                  /\ uploader' = {}
                  /\ pending' = {[b EXCEPT !.mounted = FALSE] : b \in pending \ {a}}
             ELSE /\ pending' = pending \ {a}
                  /\ UNCHANGED <<calls, selectedCall, view, uploader>>
    /\ UNCHANGED started
    /\ UNCHANGED notUi

\* analyzeAudio resolved: lines 77-85 and handleAnalysisComplete, lines 250-254
AnalysisResolved ==
    /\ \E a \in pending :
          /\ settled' = settled \cup {Settled(a, "resolved")}
          /\ calls' = <<CompletedRecord(a)>> \o calls
          /\ selectedCall' = {CompletedRecord(a)}
          /\ view' = "details"
          /\ uploader' = {}
          /\ pending' = {[b EXCEPT !.mounted = FALSE] : b \in pending \ {a}}
    /\ UNCHANGED started
    /\ UNCHANGED notUi

\* the record of lines 70-75 with the status of a failure
FailedRecord(a) == [CompletedRecord(a) EXCEPT !.status = "failed"]

\* mutant: a failed analysis is kept in the list
AnalysisRejected_recordsFailure ==
    /\ \E a \in pending, err \in UiErrors :
          /\ settled' = settled \cup {Settled(a, "rejected")}
          /\ pending' = pending \ {a}
          /\ calls' = <<FailedRecord(a)>> \o calls
          /\ IF a.mounted
             THEN uploader' = {[u EXCEPT !.error = {errorMessage(err)},
                                         !.isProcessing = FALSE] : u \in uploader}
             ELSE UNCHANGED uploader
    /\ UNCHANGED <<view, selectedCall, started>>
    /\ UNCHANGED notUi

\* analyzeAudio rejected: lines 86-98; the setters of an uploader that is
\* gone change nothing
AnalysisRejected ==
    /\ \E a \in pending, err \in UiErrors :
          /\ settled' = settled \cup {Settled(a, "rejected")}
          /\ pending' = pending \ {a}
          /\ IF a.mounted
             THEN uploader' = {[u EXCEPT !.error = {errorMessage(err)},
                                         !.isProcessing = FALSE] : u \in uploader}
             ELSE UNCHANGED uploader
    /\ UNCHANGED <<view, selectedCall, calls, started>>
    /\ UNCHANGED notUi

InitUi == CallIdle /\ ParseIdle /\ ConcIdle /\ WavIdle /\ InitApp /\ MimeIdle

NextUi ==
    \/ NavDashboard
    \/ NavUpload
    \/ ViewDetails
    \/ Back
    \/ Cancel
    \/ Drag
    \/ SelectFile
    \/ Process
    \/ AnalysisResolved
    \/ AnalysisRejected

SpecUi == InitUi /\ [][NextUi]_vars

\* C18: a file over 100 MiB that is selected leaves the uploader with the
\* too-large error and no file, whatever was selected before; so the file
\* of the uploader, and every file handleProcess has passed to
\* analyzeAudio, is at most 100 MiB (one of exactly 100 MiB passes).
C18_OversizeRejectedUpfront ==
    /\ \A u \in uploader :
          /\ \A file \in u.offered :
                file.size > 100 * 1024 * 1024 =>
                    /\ u.file = {}
                    /\ u.error = {"File is too large. Please upload a file smaller than 100MB."}
                    /\ ~u.isProcessing
          /\ \A file \in u.file : file.size <= 100 * 1024 * 1024
    /\ \A a \in pending : a.file.size <= 100 * 1024 * 1024

C18_Witness ==
    /\ \E u \in uploader :
          /\ \E file \in u.offered : file.size = 100 * 1024 * 1024 + 1
          /\ u.file = {}
    /\ \E a \in pending : a.file.size = 100 * 1024 * 1024

\* C28: whenever the view is details a call is selected: a step that enters
\* details selects a call, and the selection is cleared only by a step that
\* leaves details.
C28_DetailsHasSelectedCall ==
    /\ [](view = "details" => selectedCall # {})
    /\ [][(view # "details" /\ view' = "details") => selectedCall' # {}]_vars
    /\ [][(selectedCall # {} /\ selectedCall' = {}) => (view = "details" /\ view' # "details")]_vars

\* an older record was selected from the dashboard after the newest had been
\* shown and left
C28_Witness ==
    /\ view = "details"
    /\ Len(calls) = 2
    /\ selectedCall = {calls[2]}

\* the analyzeAudio calls settled by the step, as resolved or as rejected
NewlySettled(outcome) == {s \in settled' \ settled : s.outcome = outcome}

\* the pending call that a settlement belongs to
PendingOf(s) == CHOOSE a \in pending : a.id = s.id

\* an uploader changed at most in its error and its processing flag
OnlyErrorShown(u, v) == v = [u EXCEPT !.error = v.error, !.isProcessing = FALSE]

\* C29: every record of calls has the status completed; a success prepends
\* its record, a failure adds none, leaves view and selection as they are and
\* only sets the error of its uploader and clears its processing flag
\* (nothing, when its uploader is gone), and no other event changes calls.
C29_OnlyCompletedRecords ==
    /\ [](\A i \in DOMAIN calls : calls[i].status = "completed")
    /\ [][\A s \in NewlySettled("resolved") :
              calls' = <<CompletedRecord(PendingOf(s))>> \o calls]_vars
    /\ [][\A s \in NewlySettled("rejected") :
              /\ calls' = calls
              /\ view' = view
              /\ selectedCall' = selectedCall
              /\ IF s.mounted
                 THEN /\ uploader' # {}
                      /\ \A v \in uploader' :
                            /\ \E u \in uploader : OnlyErrorShown(u, v)
                            /\ v.error # {}
                 ELSE uploader' = uploader]_vars
    /\ [][(settled' = settled) => (calls' = calls)]_vars

\* one analysis failed in its uploader, which shows the error, after another
\* had succeeded
C29_Witness ==
    /\ Len(calls) = 1
    /\ \E s \in settled : s.outcome = "rejected" /\ s.mounted
    /\ \E u \in uploader : u.error # {} /\ ~u.isProcessing /\ u.file # {}

\* the record of calls with an id
RecordsOf(id) == {i \in DOMAIN calls : calls[i].id = id}

\* C30: each analyzeAudio call that resolves, whatever the view then and
\* whether or not its uploader is still there, adds exactly one record to
\* calls, selects it and shows the details view.
C30_LateSuccessDelivered ==
    /\ [][\A s \in NewlySettled("resolved") :
              /\ Len(calls') = Len(calls) + 1
              /\ calls'[1].id = s.id
              /\ selectedCall' = {calls'[1]}
              /\ view' = "details"]_vars
    /\ [](\A s \in settled : Cardinality(RecordsOf(s.id)) = IF s.outcome = "resolved" THEN 1 ELSE 0)
    /\ [](Len(calls) = Cardinality({s \in settled : s.outcome = "resolved"}))

\* the analysis started first resolved after its uploader was gone, with a
\* second analysis, started from a new uploader, still running
C30_Witness ==
    /\ \E s \in settled :
          /\ s.outcome = "resolved" /\ ~s.mounted /\ s.id = 1
          /\ selectedCall = {calls[1]}
          /\ calls[1].id = 1
    /\ view = "details"
    /\ \E a \in pending : a.id = 2

PayloadState == <<finalBlob, finalMimeType, base64Data, mimeType, conv, encoding>>

\* C25: every attempt sends one request with the same payload, MIME type and
\* prompt: each attempt adds one request, all requests are equal, and once
\* the payload is encoded no failure and no backoff wait changes it, its MIME
\* type or the state of the conversion, nor runs the size check again.
C25_SameRequestEveryAttempt ==
    /\ [](\A k \in 1..Len(requests) :
             requests[k] = Request(TheOne(mimeType), base64(TheOne(finalBlob))))
    /\ [](pc \in {"Requesting", "Backoff"} => Len(requests) = attempt + 1 - (IF pc = "Backoff" THEN 1 ELSE 0))
    /\ [][(pc \in {"Requesting", "Backoff"}) => UNCHANGED PayloadState]_vars

\* a third request went out, after two failures and two waits
C25_Witness ==
    /\ Len(requests) = 3
    /\ Len(waits) = 2
    /\ requests[3] = requests[1]

\* C26: when every awaited step eventually settles, an invocation reaches a
\* terminal outcome, which is either Done with a result and no error or
\* Failed with one error and no result, and no step follows it.
C26_EventuallyOneOutcome ==
    /\ <>Terminal
    /\ [](pc = "Done" => Cardinality(result) = 1 /\ error = {})
    /\ [](pc = "Failed" => Cardinality(error) = 1 /\ result = {})
    /\ [][~Terminal]_vars

\* both outcomes after the longest run: a result on the third attempt, or
\* the third failure
C26_Witness ==
    /\ Terminal
    /\ Len(requests) = 3
    /\ Len(waits) = 2
    /\ result # {} \/ error # {}

\* a step in which the reader fails while analyzeAudio awaits the encoding
ReaderFailureStep ==
    /\ pc = "Encoding"
    /\ \E k \in 1..Len(encoding'.events) : encoding'.events[k] = "error"

\* C23: a reader failure makes fileToGenerativePart reject with the reader's
\* error, whichever of error and loadend is handled first: the promise is
\* settled exactly once, as rejected, analyzeAudio fails with that error and
\* has issued no request.
C23_ReaderFailureRejectsOnce ==
    /\ [][ReaderFailureStep =>
            /\ encoding'.state = "rejected"
            /\ encoding'.settles = 1
            /\ encoding'.value = {ReaderErrorEvent}
            /\ pc' = "Failed"
            /\ error' = {ReaderErrorEvent}
            /\ requests' = <<>>]_vars
    /\ [](encoding.settles <= 1)
    /\ [](error = {ReaderErrorEvent} => pc = "Failed" /\ requests = <<>>)

\* the read failed and loadend was handled before error
C23_Witness ==
    /\ encoding.events = <<"loadend", "error">>
    /\ encoding.uncaught = 1
    /\ pc = "Failed"

\* C27, as stated: no request is sent with the MIME type audio/mp4, since every
\* input that resolves to audio/mp4 or whose declared type contains mp4 is
\* converted first and sent as audio/wav.
C27_NeverSendsMp4 ==
    \A k \in 1..Len(requests) : requests[k].mimeType # "audio/mp4"

(***************************************************************************)
(* getMimeType on its own: called with blobs of many declared types and    *)
(* with names with and without a dot.                                      *)
(***************************************************************************)
MimeTypes ==
    { "audio/wav", "audio/mpeg", "audio/mp3", "audio/ogg", "audio/x-m4a", "video/mp4",
      "application/octet-stream", "" }

MimeNames ==
    { "a.mp3", "a.MP3", "b.wav", "c.m4a", "C.M4A", "d.mp4", "e.ogg", "f.mp3.txt",
      "g.tar.wav", ".mp3", "x.", "noext", "mp3", "wav", "m4a", "" }

InitMime == CallIdle /\ ParseIdle /\ ConcIdle /\ WavIdle /\ InitApp /\ MimeIdle

\* one call: lines 115-126
Resolve ==
    /\ \E type \in MimeTypes, name \in MimeNames :
          /\ mimeIn' = {[type |-> type, name |-> name]}
          /\ mimeOut' = {getMimeType([type |-> type], name)}
    /\ UNCHANGED notMime

NextMime == Resolve

SpecMime == InitMime /\ [][NextMime]_vars

\* the name has the extension ext: a dot, no dot after it, and ext after it
\* whatever the case of its letters
HasExtension(name, ext) ==
    \E i \in 1..Len(name) :
        /\ CharAt(name, i) = "."
        /\ \A j \in (i + 1)..Len(name) : CharAt(name, j) # "."
        /\ toLowerCase(SubSeq(name, i + 1, Len(name))) = ext

\* the precedence of the MIME resolution
MimeRule(type, name) ==
    IF type = "audio/wav" THEN "audio/wav"
    ELSE IF HasExtension(name, "mp3") THEN "audio/mpeg"
    ELSE IF HasExtension(name, "wav") THEN "audio/wav"
    ELSE IF HasExtension(name, "m4a") THEN "audio/mp4"
    ELSE IF type # "" THEN type
    ELSE "audio/mp3"

\* C21, as stated: for every declared type and filename the resolved type
\* is audio/wav for the declared type audio/wav; else audio/mpeg, audio/wav
\* or audio/mp4 for the extension mp3, wav or m4a in any letter case, even
\* with another declared type; else the declared type if it is not empty;
\* else audio/mp3.
C21_MimePrecedence ==
    \A in \in mimeIn, out \in mimeOut : out = MimeRule(in.type, in.name)

====
